---- MODULE Spec2Model ----
(***************************************************************************)
(* picograd: the scalar reverse-mode autodiff engine of src/src/engine.rs. *)
(*                                                                         *)
(* A node (_Value) is a record of the arena `nodes`; a Value (the          *)
(* Rc<RefCell<_Value>> handle) is its index.  f64 numbers are modelled by  *)
(* the integers the bounds keep them in, where f64 arithmetic is exact;    *)
(* the guards keep NaN, infinities and the negative zero out of the model. *)
(***************************************************************************)
EXTENDS Integers, Sequences, FiniteSets, TLC

(* ------------------------------ bounds --------------------------------- *)
\* MaxBuilds constructor calls and MaxOps other calls in a run; MaxDagNodes
\* constructor calls in the graphs of leaf, add and multiply; MaxFan products
\* over the shared leaf; MaxCalls repeated backward calls; leaf values 0 and
\* 2..MaxLeaf, values within MaxAbs, exponents 1..MaxExp, MaxSum summands;
\* a neuron of MaxWeights weights trained for MaxIters iterations
MaxBuilds == 3
MaxOps == 2
MaxDagNodes == 5
MaxFan == 2
MaxCalls == 3
MaxLeaf == 3
MaxAbs == 27
MaxExp == 3
MaxSum == 1
MaxWeights == 2
MaxIters == 2

LeafVals == {0} \cup (2..MaxLeaf)
Factors == {-1, 2}
Labels == {"b"}

\* nodes    the arena of _Value records, in order of allocation
\* pc       "idle", "run" (inside Value::backward) or "fault" (a panic)
\* stack    the active _backward frames: node n, next operand k
\* visited  the HashSet of the running backward: node n and the content it
\*          is stored under (stamp)
\* root, pre, log   the root of the last backward call, the gradients when it
\*          started and the nodes whose gradient rule it ran, in order
\* last     the last call: "adjust" (node, factor, value before), "zero_grad"
\*          (node, gradient before) or any other
\* first    the gradients the first of the repeated backward calls left
\* nbuild, nops   the constructor calls and the other calls made so far
VARIABLES nodes, pc, stack, visited, root, pre, log, last, nbuild, nops, first

vars == <<nodes, pc, stack, visited, root, pre, log, last, nbuild, nops, first>>

(* ------------------------------ numbers -------------------------------- *)
Abs(x) == IF x < 0 THEN -x ELSE x

InRange(x) == Abs(x) <= MaxAbs

RECURSIVE powf(_, _)
powf(a, n) == IF n <= 0 THEN 1 ELSE a * powf(a, n - 1)

\* f64::tanh on the integers where its f64 result is an integer: tanh(0) = 0
\* and, for |x| >= 20, the result rounds to +-1.0
TanhDomain(x) == x = 0 \/ Abs(x) >= 20

tanh(x) == IF x = 0 THEN 0 ELSE IF x > 0 THEN 1 ELSE -1

\* a product of 0 and a negative number is the f64 -0.0, which the integers
\* cannot tell from 0.0 (equal under ==, different under to_bits)
NegZero(x, y) == (x = 0 /\ y < 0) \/ (y = 0 /\ x < 0)

(* ------------------------------- nodes --------------------------------- *)
Ids(ns) == 1..Len(ns)

_Value_new(data, op, prev) ==
    [data |-> data, grad |-> 0, op |-> op, prev |-> prev, label |-> ""]

IsLeaf(ns, n) == ns[n].prev = <<>>

from(ns, x) == Append(ns, _Value_new(x, "", <<>>))

add(ns, a, b) == Append(ns, _Value_new(ns[a].data + ns[b].data, "+", <<a, b>>))

mul(ns, a, b) == Append(ns, _Value_new(ns[a].data * ns[b].data, "*", <<a, b>>))

pow(ns, a, b) == Append(ns, _Value_new(powf(ns[a].data, ns[b].data), "^", <<a, b>>))

tanhNode(ns, a) == Append(ns, _Value_new(tanh(ns[a].data), "tanh", <<a>>))

\* mul(&self, &Value::from(-1)): the constant leaf is allocated first
neg(ns, a) == mul(from(ns, -1), a, Len(ns) + 1)

\* add(&self, &(-other))
sub(ns, a, b) == add(neg(ns, b), a, Len(ns) + 2)

\* sum = Value::from(0.0); then sum = sum + val for every element
RECURSIVE sumFrom(_, _, _)
sumFrom(ns, acc, items) ==
    IF items = <<>> THEN ns
    ELSE sumFrom(add(ns, acc, Head(items)), Len(ns) + 1, Tail(items))

sum(ns, items) == sumFrom(from(ns, 0), Len(ns) + 1, items)

add_label(ns, n, l) == [ns EXCEPT ![n].label = l]

zero_grad_value(ns, n) == [ns EXCEPT ![n].data = 0]

zero_grad(ns, n) == [ns EXCEPT ![n].grad = 0]

adjust_assign(ns, n, factor) == [ns EXCEPT ![n].data = factor * ns[n].grad]

adjust(ns, n, factor) == [ns EXCEPT ![n].data = @ + factor * ns[n].grad]

\* every node of ns from index k on has a value inside the modelled range
FitsFrom(ns, k) == \A i \in k..Len(ns) : InRange(ns[i].data)

(* --------------------- hashing and equality of nodes ------------------- *)
\* What impl Hash for _Value feeds the hasher and what impl PartialEq for
\* _Value compares: data, grad, label, _op and, recursively, _prev.
RECURSIVE Content(_, _)
Content(ns, n) ==
    <<ns[n].data, ns[n].grad, ns[n].label, ns[n].op,
      [k \in 1..Len(ns[n].prev) |-> Content(ns, ns[n].prev[k])]>>

\* std HashSet (hashbrown): the table holds 3, 7, 14, 28 items before it
\* grows, and growing rehashes every stored element from its present content
GrowsAt(items) == items \in {3, 7, 14, 28}

Rehash(ns, vis) == [i \in 1..Len(vis) |-> [n |-> vis[i].n, stamp |-> Content(ns, vis[i].n)]]

\* visited.insert(value.clone())
Insert(ns, vis, n) ==
    Append(IF GrowsAt(Len(vis)) THEN Rehash(ns, vis) ELSE vis,
           [n |-> n, stamp |-> Content(ns, n)])

\* visited.contains(&value): an element is found when it was stored under
\* the hash of the content value has now and is equal to value now.  Hashes
\* of different contents are taken to differ (no collision of the hasher).
Contains(ns, vis, n) ==
    \E i \in 1..Len(vis) :
        /\ vis[i].stamp = Content(ns, n)
        /\ Content(ns, vis[i].n) = Content(ns, n)

(* --------------------------- gradient rules ---------------------------- *)
\* the RefCell borrows a rule takes, in order: <<operand index, mutable>>
Borrows(op) ==
    CASE op = "+" -> <<<<1, TRUE>>, <<2, TRUE>>>>
      [] op = "*" -> <<<<1, TRUE>>, <<2, TRUE>>>>
      [] op = "^" -> <<<<1, TRUE>>, <<2, FALSE>>>>
      [] op = "tanh" -> <<<<1, TRUE>>>>
      [] OTHER -> <<>>

\* BorrowMutError / BorrowError: a borrow_mut of a cell that is borrowed, or
\* a borrow of a cell that is mutably borrowed.  shared holds the cells the
\* active _backward frames keep borrowed (borrowed_value).
BorrowFault(ns, n, shared) ==
    LET b == Borrows(ns[n].op)
        cell(i) == ns[n].prev[b[i][1]]
    IN \E i \in 1..Len(b) :
          \/ b[i][2] /\ cell(i) \in shared
          \/ \E j \in 1..(i - 1) : cell(j) = cell(i) /\ (b[i][2] \/ b[j][2])

\* cell.grad += x, through the RefMut of the operand
addTo_overwrite(ns, cell, x) == [ns EXCEPT ![cell].grad = x]

addTo_value(ns, cell, x) == [ns EXCEPT ![cell].data = @ + x]

addTo(ns, cell, x) == [ns EXCEPT ![cell].grad = @ + x]

\* the closures the constructors store in propagate; n is the node they are
\* called on (value), p its operands (_prev)
add_propagate(ns, n) ==
    LET p == ns[n].prev
        s1 == addTo(ns, p[1], ns[n].grad)
    IN addTo(s1, p[2], s1[n].grad)

mul_propagate(ns, n) ==
    LET p == ns[n].prev
        s1 == addTo(ns, p[1], ns[p[2]].data * ns[n].grad)
    IN addTo(s1, p[2], s1[p[1]].data * s1[n].grad)

pow_propagate_both(ns, n) ==
    LET p == ns[n].prev
        s1 == addTo(ns, p[1],
                    ns[p[2]].data * powf(ns[p[1]].data, ns[p[2]].data - 1) * ns[n].grad)
    IN addTo(s1, p[2], s1[n].data * s1[n].grad)

pow_propagate(ns, n) ==
    LET p == ns[n].prev
    IN addTo(ns, p[1],
             ns[p[2]].data * powf(ns[p[1]].data, ns[p[2]].data - 1) * ns[n].grad)

tanh_propagate(ns, n) ==
    addTo(ns, ns[n].prev[1], (1 - powf(ns[n].data, 2)) * ns[n].grad)

\* propagate_fn(&borrowed_value) of node n, its borrows granted
Propagate(ns, n) ==
    CASE ns[n].op = "+" -> add_propagate(ns, n)
      [] ns[n].op = "*" -> mul_propagate(ns, n)
      [] ns[n].op = "^" -> pow_propagate(ns, n)
      [] ns[n].op = "tanh" -> tanh_propagate(ns, n)
      [] OTHER -> ns

(* ------------------------------ backward ------------------------------- *)
\* the frames whose loop over _prev is finished return
RECURSIVE Unwind(_, _)
Unwind(ns, stk) ==
    IF stk = <<>> THEN stk
    ELSE LET f == stk[Len(stk)]
         IN IF f.k > Len(ns[f.n].prev) THEN Unwind(ns, SubSeq(stk, 1, Len(stk) - 1))
            ELSE stk

StackCells(stk) == {stk[i].n : i \in 1..Len(stk)}

\* one call _backward(visited, value) for value = n up to its loop over
\* _prev; hit is what visited.contains returned
_backward(ns, vis, stk, lg, n, hit) ==
    IF hit
    THEN [nodes |-> ns, visited |-> vis, stack |-> Unwind(ns, stk), log |-> lg,
          fault |-> FALSE]
    ELSE LET vis1 == Insert(ns, vis, n)
             stk1 == Append(stk, [n |-> n, k |-> 1])
         IN IF IsLeaf(ns, n)
            THEN [nodes |-> ns, visited |-> vis1, stack |-> Unwind(ns, stk1),
                  log |-> lg, fault |-> FALSE]
            ELSE IF BorrowFault(ns, n, StackCells(stk1))
            THEN [nodes |-> ns, visited |-> vis1, stack |-> stk1,
                  log |-> lg, fault |-> TRUE]
            ELSE [nodes |-> Propagate(ns, n), visited |-> vis1,
                  stack |-> Unwind(ns, stk1), log |-> Append(lg, n),
                  fault |-> FALSE]

Grads(ns) == [i \in 1..Len(ns) |-> ns[i].grad]

Idle == pc = "idle"

Other == <<"other">>

Apply(r) ==
    /\ nodes' = r.nodes
    /\ visited' = IF r.stack = <<>> THEN <<>> ELSE r.visited
    /\ stack' = r.stack
    /\ log' = r.log
    /\ pc' = IF r.fault THEN "fault" ELSE IF r.stack = <<>> THEN "idle" ELSE "run"

\* Value::backward up to the return of the root's own gradient rule
Backward(r, cap) ==
    /\ Idle
    /\ nops < cap
    /\ nops' = nops + 1
    /\ LET seeded == [nodes EXCEPT ![r].grad = 1]
       IN Apply(_backward(seeded, <<>>, <<>>, <<>>, r, FALSE))
    /\ root' = r
    /\ pre' = Grads(nodes)
    /\ last' = Other
    /\ UNCHANGED nbuild

\* the next recursive call _backward(visited, child_id) of the running backward
StepCore ==
    /\ pc = "run"
    /\ LET f == stack[Len(stack)]
           c == nodes[f.n].prev[f.k]
           stk == [stack EXCEPT ![Len(stack)].k = @ + 1]
       IN Apply(_backward(nodes, visited, stk, log, c, Contains(nodes, visited, c)))
    /\ UNCHANGED <<root, pre, last, nbuild, nops>>

Step == StepCore /\ UNCHANGED first

(* ----------------------- the public operations ------------------------- *)
\* what every call outside a running backward leaves behind
Returned ==
    /\ Idle
    /\ root' = 0
    /\ pre' = <<>>
    /\ log' = <<>>
    /\ UNCHANGED <<pc, stack, visited, first>>

\* a constructor call: ns is the arena after it
Build(ns, cap) ==
    /\ Returned
    /\ nbuild < cap
    /\ FitsFrom(ns, Len(nodes) + 1)
    /\ nodes' = ns
    /\ nbuild' = nbuild + 1
    /\ last' = Other
    /\ UNCHANGED nops

LeafOp(cap) == \E x \in LeafVals : Build(from(nodes, x), cap)

AddOp(cap) == \E a, b \in Ids(nodes) : Build(add(nodes, a, b), cap)

MulOp(cap) ==
    \E a, b \in Ids(nodes) :
        /\ ~NegZero(nodes[a].data, nodes[b].data)
        /\ Build(mul(nodes, a, b), cap)

Leaf == LeafOp(MaxBuilds)

Add == AddOp(MaxBuilds)

Mul == MulOp(MaxBuilds)

Neg == \E a \in Ids(nodes) : nodes[a].data # 0 /\ Build(neg(nodes, a), MaxBuilds)

Sub == \E a, b \in Ids(nodes) : nodes[b].data # 0 /\ Build(sub(nodes, a, b), MaxBuilds)

Pow ==
    \E a, b \in Ids(nodes) :
        /\ nodes[b].data \in 1..MaxExp
        /\ Build(pow(nodes, a, b), MaxBuilds)

Tanh ==
    \E a \in Ids(nodes) :
        /\ TanhDomain(nodes[a].data)
        /\ Build(tanhNode(nodes, a), MaxBuilds)

SumItems == UNION {[1..k -> Ids(nodes)] : k \in 0..MaxSum}

Sum == \E items \in SumItems : Build(sum(nodes, items), MaxBuilds)

\* add_label takes the handle by value: the handle a constructor just returned
Label ==
    \E l \in Labels :
        /\ Returned
        /\ nodes # <<>>
        /\ nops < MaxOps
        /\ nodes' = add_label(nodes, Len(nodes), l)
        /\ nops' = nops + 1
        /\ last' = Other
        /\ UNCHANGED nbuild

ZeroGrad ==
    \E n \in Ids(nodes) :
        /\ Returned
        /\ nops < MaxOps
        /\ nodes' = zero_grad(nodes, n)
        /\ nops' = nops + 1
        /\ last' = <<"zero_grad", n, nodes[n].grad>>
        /\ UNCHANGED nbuild

\* an exponent stays an exponent the model's powf covers
KeepsExponents(ns) ==
    \A p \in Ids(ns) : ns[p].op = "^" => ns[ns[p].prev[2]].data \in 1..MaxExp

Adjust ==
    \E n \in Ids(nodes), factor \in Factors :
        /\ Returned
        /\ nops < MaxOps
        /\ InRange(adjust(nodes, n, factor)[n].data)
        /\ KeepsExponents(adjust(nodes, n, factor))
        /\ nodes' = adjust(nodes, n, factor)
        /\ nops' = nops + 1
        /\ last' = <<"adjust", n, factor, nodes[n].data>>
        /\ UNCHANGED nbuild

BackwardAny == \E r \in Ids(nodes) : Backward(r, MaxOps) /\ UNCHANGED first

Init ==
    /\ nodes = <<>>
    /\ pc = "idle"
    /\ stack = <<>>
    /\ visited = <<>>
    /\ root = 0
    /\ pre = <<>>
    /\ log = <<>>
    /\ last = Other
    /\ nbuild = 0
    /\ nops = 0
    /\ first = <<>>

Next ==
    \/ Leaf
    \/ Add
    \/ Mul
    \/ Neg
    \/ Sub
    \/ Pow
    \/ Tanh
    \/ Sum
    \/ Label
    \/ ZeroGrad
    \/ Adjust
    \/ BackwardAny
    \/ Step

Spec == Init /\ [][Next]_vars

(* ---------------- graphs of leaf, add and multiply only ---------------- *)
DagLeaf == LeafOp(MaxDagNodes)

DagAdd == AddOp(MaxDagNodes)

DagMul == MulOp(MaxDagNodes)

\* one backward call, on the node built last (the loss)
DagBackward == nodes # <<>> /\ Backward(Len(nodes), 1) /\ UNCHANGED first

NextDag == DagLeaf \/ DagAdd \/ DagMul \/ DagBackward \/ Step

SpecDag == Init /\ [][NextDag]_vars

(* --------------------- what backward is meant to do -------------------- *)
Done == pc = "idle" /\ root # 0

RECURSIVE Reach(_, _)
Reach(ns, r) == {r} \cup UNION {Reach(ns, ns[r].prev[k]) : k \in 1..Len(ns[r].prev)}

\* the operand edges <<consumer, position>> that end in n
Uses(ns, r, n) ==
    {e \in Reach(ns, r) \X {1, 2} : e[2] <= Len(ns[e[1]].prev) /\ ns[e[1]].prev[e[2]] = n}

\* the derivative of node c's value with respect to its k-th operand
Local(ns, c, k) ==
    LET p == ns[c].prev
    IN CASE ns[c].op = "+" -> 1
         [] ns[c].op = "*" -> ns[p[3 - k]].data
         [] ns[c].op = "^" ->
              IF k = 1 THEN ns[p[2]].data * powf(ns[p[1]].data, ns[p[2]].data - 1) ELSE 0
         [] ns[c].op = "tanh" -> 1 - powf(ns[c].data, 2)
         [] OTHER -> 0

RECURSIVE Deriv(_, _, _), DerivSum(_, _, _)
\* the sum, over every operand-edge path from r to n, of the product of the
\* local derivatives along the path
Deriv(ns, r, n) == IF n = r THEN 1 ELSE DerivSum(ns, r, Uses(ns, r, n))

DerivSum(ns, r, es) ==
    IF es = {} THEN 0
    ELSE LET e == CHOOSE x \in es : TRUE
         IN Deriv(ns, r, e[1]) * Local(ns, e[1], e[2]) + DerivSum(ns, r, es \ {e})

Range(q) == {q[i] : i \in 1..Len(q)}

\* C1: after one backward(root) on a graph of leaf, add and multiply whose
\* gradients were all 0, root.gradient is 1 and every node reachable from root
\* holds the total partial derivative of root.value with respect to it.
C1_TotalDerivative ==
    (/\ Done
     /\ \A n \in Ids(nodes) : pre[n] = 0
     /\ \A n \in Reach(nodes, root) : nodes[n].op \in {"", "+", "*"})
    => /\ nodes[root].grad = 1
       /\ \A n \in Reach(nodes, root) : nodes[n].grad = Deriv(nodes, root, n)

\* C2: a node's gradient rule is invoked only after the rule of every
\* reachable node that has it as an operand has been invoked.
C2_ConsumersFirst ==
    root # 0 =>
        \A i \in 1..Len(log) :
            \A e \in Uses(nodes, root, log[i]) :
                \E j \in 1..(i - 1) : log[j] = e[1]

\* C3: in one backward call the gradient rule of every non-leaf node reachable
\* from root is invoked exactly once: never twice, never not at all.
C3_ExactlyOnce ==
    /\ \A i, j \in 1..Len(log) : log[i] = log[j] => i = j
    /\ Done => \A n \in Reach(nodes, root) : ~IsLeaf(nodes, n) => n \in Range(log)

(* --------------------------- leaf fan-out ------------------------------ *)
\* w = leaf(wv); p_i = multiply(w, leaf(cs[i])); loss = add(...add(p_1, p_2)..., p_k)
RECURSIVE FanProducts(_, _)
FanProducts(ns, cs) ==
    IF cs = <<>> THEN ns
    ELSE FanProducts(mul(from(ns, Head(cs)), 1, Len(ns) + 1), Tail(cs))

FanGraph(wv, cs) ==
    LET ps == FanProducts(from(<<>>, wv), cs)
        k == Len(cs)
        adds[i \in 2..k] ==
            IF i = 2 THEN add(ps, 3, 5)
            ELSE add(adds[i - 1], Len(adds[i - 1]), 2 * i + 1)
    IN adds[k]

FanGraphs ==
    {FanGraph(wv, cs) : wv \in LeafVals, cs \in UNION {[1..k -> LeafVals] : k \in 2..MaxFan}}

InitFan ==
    /\ nodes \in FanGraphs
    /\ pc = "idle"
    /\ stack = <<>>
    /\ visited = <<>>
    /\ root = 0
    /\ pre = <<>>
    /\ log = <<>>
    /\ last = Other
    /\ nbuild = Len(nodes)
    /\ nops = 0
    /\ first = <<>>

FanBackward == Backward(Len(nodes), 1) /\ UNCHANGED first

NextFan == FanBackward \/ Step

SpecFan == InitFan /\ [][NextFan]_vars

\* the number of products of a fan-out graph of 3k nodes
FanK(ns) == Len(ns) \div 3

RECURSIVE SumData(_, _)
SumData(ns, k) == IF k = 0 THEN 0 ELSE ns[2 * k].data + SumData(ns, k - 1)

Shape(ns) == [i \in 1..Len(ns) |-> <<ns[i].op, ns[i].prev, ns[i].data>>]

IsFan(ns) ==
    /\ Len(ns) >= 6
    /\ Len(ns) % 3 = 0
    /\ \A i \in 1..FanK(ns) : ns[2 * i].data \in LeafVals
    /\ ns[1].data \in LeafVals
    /\ Shape(ns) = Shape(FanGraph(ns[1].data, [i \in 1..FanK(ns) |-> ns[2 * i].data]))

\* C4: a fresh leaf w used by k >= 2 products multiply(w, leaf(c_i)) that add
\* nodes combine into loss has, after backward(loss), the gradient sum of c_i.
C4_FanOutSum ==
    (/\ Done
     /\ IsFan(nodes)
     /\ root = Len(nodes)
     /\ \A n \in Ids(nodes) : pre[n] = 0)
    => nodes[1].grad = SumData(nodes, FanK(nodes))

(* ----------------------- repeated backward calls ----------------------- *)
\* the roots the constructors build over the two leaves of ns
RootsOver(ns) ==
    {add(ns, i, j) : i, j \in Ids(ns)}
    \cup {mul(ns, i, j) : i, j \in Ids(ns)}
    \cup {pow(ns, i, j) : i \in Ids(ns), j \in {m \in Ids(ns) : ns[m].data \in 1..MaxExp}}
    \cup {tanhNode(ns, i) : i \in {m \in Ids(ns) : TanhDomain(ns[m].data)}}

InitRepeat ==
    /\ nodes \in UNION {RootsOver(from(from(<<>>, x), y)) : x, y \in LeafVals}
    /\ pc = "idle"
    /\ stack = <<>>
    /\ visited = <<>>
    /\ root = 0
    /\ pre = <<>>
    /\ log = <<>>
    /\ last = Other
    /\ nbuild = Len(nodes)
    /\ nops = 0
    /\ first = <<>>

RepeatBackward == Backward(Len(nodes), MaxCalls) /\ UNCHANGED first

\* first keeps the gradients the first call left
RepeatStep ==
    /\ StepCore
    /\ first' = IF pc' = "idle" /\ nops = 1 THEN Grads(nodes') ELSE first

NextRepeat == RepeatBackward \/ RepeatStep

SpecRepeat == InitRepeat /\ [][NextRepeat]_vars

Operands(ns, n) == Range(ns[n].prev)

\* C6: backward accumulates: after n consecutive backward(root) calls on a
\* root whose operands are leaves, every operand's gradient is n times its
\* gradient after the first call, and root.gradient is 1 after every call.
C6_Accumulates ==
    (/\ Done
     /\ first # <<>>
     /\ \A o \in Operands(nodes, root) : IsLeaf(nodes, o))
    => /\ nodes[root].grad = 1
       /\ \A o \in Operands(nodes, root) : nodes[o].grad = nops * first[o]

C6_Witness ==
    /\ Done
    /\ nops >= 2
    /\ nodes[root].op = "*"
    /\ \A o \in Operands(nodes, root) :
           IsLeaf(nodes, o) /\ first[o] # 0 /\ nodes[o].grad = nops * first[o]

(* ------------------ values, adjust and zero_gradient ------------------- *)
\* C5: no operation other than adjust changes the value of an existing node.
C5_ValuesFrozen ==
    [][last'[1] # "adjust" => \A n \in Ids(nodes) : nodes'[n].data = nodes[n].data]_vars

C5_Witness ==
    /\ Done
    /\ nodes[root].op = "+"
    /\ nodes[root].data = nodes[nodes[root].prev[1]].data + nodes[nodes[root].prev[2]].data
    /\ nodes[root].data # 0
    /\ \A o \in Operands(nodes, root) : nodes[o].grad # 0 /\ ~IsLeaf(nodes, o)

\* C7: adjust(node, s) leaves value = v + s*g and nothing else changed.
C7_Adjust ==
    [][last'[1] = "adjust" =>
         nodes' = [nodes EXCEPT ![last'[2]].data =
                       nodes[last'[2]].data + last'[3] * nodes[last'[2]].grad]]_vars

C7_Witness ==
    /\ last[1] = "adjust"
    /\ nodes[last[2]].grad # 0
    /\ nodes[last[2]].data = last[4] + last[3] * nodes[last[2]].grad
    /\ Len(nodes) >= 3

\* C8: zero_gradient(node) sets the node's gradient to 0 whatever it was,
\* changes nothing else, and a second application changes nothing.
C8_ZeroGrad ==
    [][last'[1] = "zero_grad" =>
         /\ nodes' = [nodes EXCEPT ![last'[2]].grad = 0]
         /\ zero_grad(nodes', last'[2]) = nodes']_vars

C8_Witness ==
    /\ last[1] = "zero_grad"
    /\ last[3] # 0
    /\ nodes[last[2]].grad = 0
    /\ nodes[last[2]].data # 0

(* ------------------------------- power --------------------------------- *)
\* the step in which the gradient rule of node p ran to its end
RuleRan(p) ==
    /\ pc' # "fault"
    /\ \/ pc = "run" /\ log' = Append(log, p)
       \/ pc = "idle" /\ root' = p /\ nops' = nops + 1 /\ log' = <<p>>

\* the nodes that have n as an operand
Consumers(ns, n) == {c \in Ids(ns) : n \in Operands(ns, c)}

OnlyExponent(ns, n) ==
    /\ Consumers(ns, n) # {}
    /\ \A c \in Consumers(ns, n) : ns[c].op = "^" /\ ns[c].prev[1] # n

\* C9: the rule of p = power(a, b), a and b distinct, adds
\* b.value * a.value^(b.value - 1) * p.gradient to a.gradient and nothing to
\* b.gradient; a node used only as an exponent keeps its gradient through
\* backward.
C9_PowRule ==
    [][/\ \A p \in Ids(nodes) :
            (nodes[p].op = "^" /\ nodes[p].prev[1] # nodes[p].prev[2] /\ RuleRan(p))
            => LET a == nodes[p].prev[1]
                   b == nodes[p].prev[2]
                   g == IF pc = "idle" THEN 1 ELSE nodes[p].grad
               IN /\ nodes'[a].grad =
                        nodes[a].grad
                        + nodes[b].data * powf(nodes[a].data, nodes[b].data - 1) * g
                  /\ nodes'[b].grad = nodes[b].grad
       /\ \A b \in Ids(nodes') :
            (root' # 0 /\ b # root' /\ OnlyExponent(nodes', b))
            => nodes'[b].grad = pre'[b]]_vars

C9_Witness ==
    /\ Done
    /\ nodes[root].op = "^"
    /\ nodes[root].data = 8
    /\ nodes[nodes[root].prev[1]].data = 2
    /\ nodes[nodes[root].prev[1]].grad = 12
    /\ nodes[nodes[root].prev[2]].data = 3
    /\ nodes[nodes[root].prev[2]].grad = 0

(* -------------------------- aliased operands --------------------------- *)
AliasedRoot(op) ==
    /\ Done
    /\ nodes[root].op = op
    /\ nodes[root].prev[1] = nodes[root].prev[2]
    /\ IsLeaf(nodes, nodes[root].prev[1])
    /\ pre[nodes[root].prev[1]] = 0

\* C10: backward on add(a, a) and on multiply(a, a) completes and leaves
\* a.gradient = 2 and 2 * a.value; no backward call reaches a borrow fault.
C10_AliasedOperands ==
    /\ pc # "fault"
    /\ AliasedRoot("+") => nodes[nodes[root].prev[1]].grad = 2
    /\ AliasedRoot("*") =>
           nodes[nodes[root].prev[1]].grad = 2 * nodes[nodes[root].prev[1]].data

(* ------------------------- training iterations ------------------------- *)
\* the parameters of a neuron of MaxWeights inputs: the weights, then the bias
Params == 1..(MaxWeights + 1)

\* Neuron::new: the weights in order, then the bias, which is labelled "b"
Neuron_new(vals) ==
    LET k == Len(vals)
        leaves[i \in 0..k] == IF i = 0 THEN <<>> ELSE from(leaves[i - 1], vals[i])
    IN add_label(leaves[k], k, "b")

\* one forward pass over the retained parameters of ns: the input leaves
\* Value::from(x), the products w_i * x_i, their reduction by +, the bias
\* added in front, and tanh where act (without it the sum is the loss)
Neuron_forward(ns, xs, act) ==
    LET k == Len(xs)
        base == Len(ns)
        ins[i \in 0..k] == IF i = 0 THEN ns ELSE from(ins[i - 1], xs[i])
        prods[i \in 0..k] == IF i = 0 THEN ins[k] ELSE mul(prods[i - 1], i, base + i)
        accs[i \in 1..k] ==
            IF i = 1 THEN prods[k]
            ELSE add(accs[i - 1],
                     IF i = 2 THEN base + k + 1 ELSE Len(accs[i - 1]),
                     base + k + i)
        s == add(accs[k], k + 1, Len(accs[k]))
    IN IF act THEN tanhNode(s, Len(s)) ELSE s

\* network.parameters().iter().for_each(|p| p.zero_grad())
zero_grad_weights(ns) ==
    [i \in 1..Len(ns) |-> IF i \in Params \ {MaxWeights + 1} THEN zero_grad(ns, i)[i] ELSE ns[i]]

zero_grad_all(ns) ==
    [i \in 1..Len(ns) |-> IF i \in Params THEN zero_grad(ns, i)[i] ELSE ns[i]]

\* network.parameters().iter().for_each(|p| p.adjust(factor))
adjust_all(ns, factor) ==
    [i \in 1..Len(ns) |-> IF i \in Params THEN adjust(ns, i, factor)[i] ELSE ns[i]]

InitTrain ==
    /\ nodes \in {Neuron_new(vals) : vals \in [Params -> LeafVals]}
    /\ pc = "idle"
    /\ stack = <<>>
    /\ visited = <<>>
    /\ root = 0
    /\ pre = <<>>
    /\ log = <<>>
    /\ last = <<"new">>
    /\ nbuild = Len(nodes)
    /\ nops = 0
    /\ first = <<>>

\* the forward pass of an iteration: a fresh graph over the parameters
TrainForward ==
    \E xs \in [1..MaxWeights -> LeafVals], act \in BOOLEAN :
        LET g == Neuron_forward(nodes, xs, act)
            s == Neuron_forward(nodes, xs, FALSE)
        IN /\ Returned
           /\ last[1] \in {"new", "adjust_all"}
           /\ nops < MaxIters
           /\ \A i \in 1..MaxWeights : ~NegZero(nodes[i].data, xs[i])
           /\ FitsFrom(g, Len(nodes) + 1)
           /\ act => TanhDomain(s[Len(s)].data)
           /\ nodes' = g
           /\ nbuild' = nbuild + (Len(g) - Len(nodes))
           /\ last' = <<"forward">>
           /\ UNCHANGED nops

TrainZeroGrad ==
    /\ Returned
    /\ last[1] = "forward"
    /\ nodes' = zero_grad_all(nodes)
    /\ last' = <<"zero_grad_all">>
    /\ UNCHANGED <<nbuild, nops>>

\* loss.backward(): the root is the node the forward pass returned
TrainBackward ==
    /\ last[1] = "zero_grad_all"
    /\ Backward(Len(nodes), MaxIters)
    /\ UNCHANGED first

TrainAdjust ==
    \E factor \in Factors :
        /\ Returned
        /\ root # 0
        /\ \A p \in Params : InRange(adjust_all(nodes, factor)[p].data)
        /\ nodes' = adjust_all(nodes, factor)
        /\ last' = <<"adjust_all", factor>>
        /\ UNCHANGED <<nbuild, nops>>

NextTrain == TrainForward \/ TrainZeroGrad \/ TrainBackward \/ Step \/ TrainAdjust

SpecTrain == InitTrain /\ [][NextTrain]_vars

\* the graph under r built again by the same constructor calls in an empty
\* arena, its leaves newly created with the values (and labels) they hold in
\* ns: at[i] is the new index of node i, 0 for a node that is not under r
RECURSIVE Rebuild(_, _, _, _)
Rebuild(ns, keep, i, acc) ==
    IF i > Len(ns) THEN acc
    ELSE IF i \notin keep
    THEN Rebuild(ns, keep, i + 1, [acc EXCEPT !.at = Append(@, 0)])
    ELSE LET m(j) == acc.at[ns[i].prev[j]]
             leaf == from(acc.nodes, ns[i].data)
             made == CASE ns[i].op = "+" -> add(acc.nodes, m(1), m(2))
                       [] ns[i].op = "*" -> mul(acc.nodes, m(1), m(2))
                       [] ns[i].op = "^" -> pow(acc.nodes, m(1), m(2))
                       [] ns[i].op = "tanh" -> tanhNode(acc.nodes, m(1))
                       [] OTHER -> IF ns[i].label = "" THEN leaf
                                   ELSE add_label(leaf, Len(leaf), ns[i].label)
         IN Rebuild(ns, keep, i + 1, [nodes |-> made, at |-> Append(acc.at, Len(made))])

Fresh(ns, r) == Rebuild(ns, Reach(ns, r), 1, [nodes |-> <<>>, at |-> <<>>])

\* a whole backward(r) on the arena ns, call by call
RECURSIVE RunCalls(_)
RunCalls(r) ==
    IF r.fault \/ r.stack = <<>> THEN r
    ELSE LET f == r.stack[Len(r.stack)]
             c == r.nodes[f.n].prev[f.k]
             stk == [r.stack EXCEPT ![Len(r.stack)].k = @ + 1]
         IN RunCalls(_backward(r.nodes, r.visited, stk, r.log, c,
                               Contains(r.nodes, r.visited, c)))

RunBackward(ns, r) ==
    RunCalls(_backward([ns EXCEPT ![r].grad = 1], <<>>, <<>>, <<>>, r, FALSE))

\* C11: in every training iteration (a fresh graph over the retained
\* parameter leaves, zero_grad on every parameter, one backward(root)), the
\* gradient of each parameter after the backward is the gradient the same
\* backward leaves on the same graph built over newly created leaves of the
\* same values: earlier graphs, gradients and adjust calls carry nothing over
\* but the adjusted values.
C11_FreshEachIteration ==
    Done =>
        LET f == Fresh(nodes, root)
            ref == RunBackward(f.nodes, f.at[root])
        IN /\ ~ref.fault
           /\ \A p \in Params : nodes[p].grad = ref.nodes[f.at[p]].grad

\* a second iteration is done over adjusted parameters: a parameter has a
\* gradient, and so has a node of the first iteration's discarded graph
C11_Witness ==
    /\ Done
    /\ nops >= 2
    /\ \E p \in Params : nodes[p].grad # 0 /\ nodes[p].data \notin LeafVals
    /\ \E n \in Ids(nodes) \ Reach(nodes, root) : nodes[n].grad # 0
    /\ \E n \in Reach(nodes, root) \ Params : IsLeaf(nodes, n) /\ nodes[n].data # 0

====
